---- MODULE Spec2Model ----
(***************************************************************************)
(* SyncDomainSubscription (comms/src/domain_subscriber.rs): a synchronous  *)
(* reader over a fused, topic-filtered stream of InboundMessage.           *)
(*                                                                         *)
(* The reader's only field is `subscription: Option<S>`.  One call of      *)
(* receive_messages is modelled as a call frame that passes through        *)
(*   Call    - line 60-62/104: take the stream out of the slot and match,  *)
(*   Select  - line 67-80: one iteration of the select! loop,              *)
(*   Finish  - line 84-102: decode loop, conditional restore, return,      *)
(* so that items may arrive at the stream between the polls of one drain   *)
(* pass (the publisher lives on another task).                             *)
(***************************************************************************)
EXTENDS Integers, Sequences, FiniteSets

\* Bounds of the model.
MaxPublished == 3
MaxCalls == 3

\* Call frames of receive_messages, numbered by depth.  Under Spec
\* (`&mut self`) at most one is active; SpecOverlap lets a second one start
\* while the first is active.
Frames == {1, 2}

Topics == {"Topic1", "Topic2"}
\* The topic the reader's stream was obtained for (get_subscription, line 181).
SubscribedTopic == "Topic1"
\* Node identities that messages come from (NodeIdentity, line 129).
Identities == {"nodeA", "nodeB"}

VARIABLES
    subscription,     \* the reader's slot: "Some" or "None"
    queue,            \* items ready in the stream, oldest first
    closed,           \* every publisher has been dropped
    terminated,       \* FusedStream::is_terminated of the stream
    published,        \* every TopicPayload published so far, in publish order
    pc,               \* per frame: "idle", "drain" or "decode"
    s,                \* per frame: the local `s`, "Some" when the frame holds the stream
    stream_messages,  \* per frame: `result` / `stream_messages`
    stream_complete,  \* per frame: `complete` / `stream_complete`
    last_poll,        \* per frame: outcome of the last s.next() of this pass
    ready,            \* the items that were ready when the latest drain pass took the
                      \* stream, kept unless an item reached the stream during that call
    log               \* what the finished calls returned, in return order

vars == <<subscription, queue, closed, terminated, published, pc, s,
          stream_messages, stream_complete, last_poll, ready, log>>

----------------------------------------------------------------------------
\* Wire encoding of a payload.  A well-formed payload is a tagged frame that
\* carries the value; anything else does not deserialize.
FormatTag == "fmt"

Encode(a) == <<FormatTag, a>>

Malformed == <<"junk">>

deserialize_message(message) ==
    IF Len(message) = 2 /\ message[1] = FormatTag
    THEN [ok |-> TRUE, value |-> message[2]]
    ELSE [ok |-> FALSE, value |-> 0]

\* InboundMessage::new(peer_source, origin_source, message), line 165-169.
InboundMessage(node, message) ==
    [peer_source |-> node, origin_source |-> <<"pk", node>>, message |-> message]

\* MessageInfo built from a raw message, line 88-91.
MessageInfo(m) == [peer_source |-> m.peer_source, origin_source |-> m.origin_source]

\* Line 86-96 skipping an item that does not deserialize instead of failing.
RECURSIVE DecodeLoopSkip(_, _, _)
DecodeLoopSkip(raw, i, messages) ==
    IF i > Len(raw) THEN [err |-> FALSE, messages |-> messages]
    ELSE LET d == deserialize_message(raw[i].message) IN
         IF ~d.ok THEN DecodeLoopSkip(raw, i + 1, messages)
         ELSE DecodeLoopSkip(raw, i + 1, Append(messages, <<MessageInfo(raw[i]), d.value>>))

\* Line 88-91 reading the provenance of the first buffered message for every item.
RECURSIVE DecodeLoopFirstInfo(_, _, _)
DecodeLoopFirstInfo(raw, i, messages) ==
    IF i > Len(raw) THEN [err |-> FALSE, messages |-> messages]
    ELSE LET d == deserialize_message(raw[i].message) IN
         IF ~d.ok THEN [err |-> TRUE, messages |-> <<>>]
         ELSE DecodeLoopFirstInfo(raw, i + 1,
                                  Append(messages, <<MessageInfo(raw[1]), d.value>>))

\* The for loop of line 86-96: messages decoded so far, aborted by `?` at the
\* first item that does not deserialize.
RECURSIVE DecodeLoop(_, _, _)
DecodeLoop(raw, i, messages) ==
    IF i > Len(raw) THEN [err |-> FALSE, messages |-> messages]
    ELSE LET d == deserialize_message(raw[i].message) IN
         IF ~d.ok THEN [err |-> TRUE, messages |-> <<>>]
         ELSE DecodeLoop(raw, i + 1, Append(messages, <<MessageInfo(raw[i]), d.value>>))

\* Results of receive_messages.
Ok(messages) == [kind |-> "Ok", messages |-> messages]
Err(e) == [kind |-> e, messages |-> <<>>]

----------------------------------------------------------------------------
\* Line 68-79 taking the drop of the publishers for the end of the stream.
SelectBranchClosed(term, q, cl) ==
    IF term \/ cl THEN "complete"
    ELSE IF q # <<>> THEN "item"
    ELSE "default"

\* Which branch one select! iteration takes (line 68-79): `complete` when the
\* only future is terminated, the s.next() branch when the poll is ready
\* (with Some(item), or with None at the end of the stream), `default` when
\* the poll is pending.
SelectBranch(term, q, cl) ==
    IF term THEN "complete"
    ELSE IF q # <<>> THEN "item"
    ELSE IF cl THEN "none"
    ELSE "default"

\* Line 71 keeping only the newest item.
PushReplace(result, item) == <<item>>

\* Line 71 inserting at the front.
PushFront(result, item) == <<item>> \o result

\* Line 71: result.push(item).
Push(result, item) == Append(result, item)

\* Line 69 leaving the polled item in the stream.
AdvanceKeep(q) == q

\* Line 69: s.next() yielding Some(item) removes the item from the stream.
Advance(q) == Tail(q)

\* Line 98-100 with the test inverted.
RestoreInverted(slot, complete) == IF complete THEN "Some" ELSE slot

\* Line 98-100 with the test dropped.
RestoreAlways(slot, complete) == "Some"

\* Line 98-100: the slot after a pass that decoded, given what it was.
Restore(slot, complete) == IF ~complete THEN "Some" ELSE slot

\* Line 104 returning the other "no stream" error kind.
NoneArmNotInitialized == Err("SubscriptionReaderNotInitialized")

\* Line 104: the None arm.
NoneArm == Err("SubscriptionStreamEnded")

\* Line 60 reading the slot without emptying it.
TakePeek(slot) == slot

\* Line 60 leaves None in the slot.
Take(slot) == "None"

\* A stream that does not record its end.
UnfusedAfterNone(term) == term

\* is_terminated after a poll returned None: the FusedStream bound of line 50
\* (the stream is built with .fuse(), line 181).
AfterNone(term) == TRUE

\* The fan-out channel hands a published item to the stream of its topic.
Deliver(q, topic, m) == IF topic = SubscribedTopic THEN Append(q, m) ELSE q

\* The stream as the latest drain pass found it: the items that were ready at
\* line 60, or the fact that an item has arrived during that call.
Quiet(q) == [quiet |-> TRUE, items |-> q]

Disturbed == [quiet |-> FALSE, items |-> <<>>]

ActiveFrames == {c \in Frames : pc[c] # "idle"}

\* The stream still exists: it sits in the slot or in a frame's local.
StreamAlive == subscription = "Some" \/ \E c \in Frames : s[c] = "Some"

----------------------------------------------------------------------------
\* new() leaving the slot empty.
InitEmpty ==
    /\ subscription = "None"
    /\ queue = <<>>
    /\ closed \in BOOLEAN
    /\ terminated \in BOOLEAN
    /\ terminated => closed
    /\ published = <<>>
    /\ pc = [c \in Frames |-> "idle"]
    /\ s = [c \in Frames |-> "None"]
    /\ stream_messages = [c \in Frames |-> <<>>]
    /\ stream_complete = [c \in Frames |-> FALSE]
    /\ last_poll = [c \in Frames |-> "NotPolled"]
    /\ ready = Quiet(<<>>)
    /\ log = <<>>

\* new(stream), line 52-56: the slot holds the stream.  The stream may already
\* have lost its publishers, and may already be terminated.
Init ==
    /\ subscription = "Some"
    /\ queue = <<>>
    /\ closed \in BOOLEAN
    /\ terminated \in BOOLEAN
    /\ terminated => closed
    /\ published = <<>>
    /\ pc = [c \in Frames |-> "idle"]
    /\ s = [c \in Frames |-> "None"]
    /\ stream_messages = [c \in Frames |-> <<>>]
    /\ stream_complete = [c \in Frames |-> FALSE]
    /\ last_poll = [c \in Frames |-> "NotPolled"]
    /\ ready = Quiet(<<>>)
    /\ log = <<>>

\* A publisher sends one TopicPayload; the fan-out channel hands it to the
\* stream of the subscribed topic when the topics match.
Publish(topic, node, wellformed) ==
    /\ ~closed
    /\ Len(published) < MaxPublished
    /\ LET a == Len(published) + 1
           m == InboundMessage(node, IF wellformed THEN Encode(a) ELSE Malformed)
       IN /\ published' = Append(published, [topic |-> topic, message |-> m])
          /\ queue' = IF StreamAlive THEN Deliver(queue, topic, m) ELSE queue
    /\ ready' = IF ActiveFrames # {} /\ queue' # queue THEN Disturbed ELSE ready
    /\ UNCHANGED <<subscription, closed, terminated, pc, s, stream_messages,
                   stream_complete, last_poll, log>>

\* drop(publisher), line 178.
DropPublishers ==
    /\ ~closed
    /\ closed' = TRUE
    /\ UNCHANGED <<subscription, queue, terminated, published, pc, s,
                   stream_messages, stream_complete, last_poll, ready, log>>

\* Line 60-63 and 104: take the slot and match on it.
Call(c) ==
    /\ pc[c] = "idle"
    /\ \A d \in Frames : d < c => pc[d] # "idle"
    /\ Len(log) + Cardinality(ActiveFrames) < MaxCalls
    /\ subscription' = Take(subscription)
    /\ IF subscription = "Some"
       THEN /\ s' = [s EXCEPT ![c] = "Some"]
            /\ pc' = [pc EXCEPT ![c] = "drain"]
            /\ stream_messages' = [stream_messages EXCEPT ![c] = <<>>]
            /\ stream_complete' = [stream_complete EXCEPT ![c] = FALSE]
            /\ last_poll' = [last_poll EXCEPT ![c] = "NotPolled"]
            /\ ready' = Quiet(queue)
            /\ log' = log
       ELSE /\ log' = Append(log, [result |-> NoneArm, raw |-> <<>>,
                                   complete |-> FALSE, last_poll |-> "NotPolled",
                                   drained |-> FALSE])
            /\ UNCHANGED <<s, pc, stream_messages, stream_complete, last_poll, ready>>
    /\ UNCHANGED <<queue, closed, terminated, published>>

\* One iteration of the loop of line 67-80.
Select(c) ==
    /\ pc[c] = "drain"
    /\ LET branch == SelectBranch(terminated, queue, closed) IN
       /\ branch = "complete" =>
            /\ stream_complete' = [stream_complete EXCEPT ![c] = TRUE]
            /\ pc' = [pc EXCEPT ![c] = "decode"]
            /\ UNCHANGED <<queue, terminated, stream_messages, last_poll>>
       /\ branch = "item" =>
            /\ stream_messages' = [stream_messages EXCEPT ![c] = Push(@, Head(queue))]
            /\ queue' = Advance(queue)
            /\ last_poll' = [last_poll EXCEPT ![c] = "Item"]
            /\ UNCHANGED <<terminated, stream_complete, pc>>
       /\ branch = "none" =>
            /\ terminated' = AfterNone(terminated)
            /\ last_poll' = [last_poll EXCEPT ![c] = "End"]
            /\ UNCHANGED <<queue, stream_messages, stream_complete, pc>>
       /\ branch = "default" =>
            /\ pc' = [pc EXCEPT ![c] = "decode"]
            /\ last_poll' = [last_poll EXCEPT ![c] = "Pending"]
            /\ UNCHANGED <<queue, terminated, stream_messages, stream_complete>>
    /\ UNCHANGED <<subscription, closed, published, s, ready, log>>

\* Line 84-102: decode, restore the slot unless the stream completed, return.
\* The `?` of line 94 returns before line 98 is reached.
Finish(c) ==
    /\ pc[c] = "decode"
    /\ LET d == DecodeLoop(stream_messages[c], 1, <<>>)
           result == IF d.err THEN Err("MessageError") ELSE Ok(d.messages)
       IN /\ subscription' = IF d.err THEN subscription
                             ELSE Restore(subscription, stream_complete[c])
          /\ log' = Append(log, [result |-> result, raw |-> stream_messages[c],
                                 complete |-> stream_complete[c],
                                 last_poll |-> last_poll[c], drained |-> TRUE])
    /\ pc' = [pc EXCEPT ![c] = "idle"]
    /\ s' = [s EXCEPT ![c] = "None"]
    /\ stream_messages' = [stream_messages EXCEPT ![c] = <<>>]
    /\ stream_complete' = [stream_complete EXCEPT ![c] = FALSE]
    /\ last_poll' = [last_poll EXCEPT ![c] = "NotPolled"]
    /\ UNCHANGED <<queue, closed, terminated, published, ready>>

\* receive_messages on a shared reference: nothing keeps calls apart.
SharedCall(c) == Call(c)

\* receive_messages takes `&mut self`: a call starts only when no other is active.
ExclusiveCall(c) == ActiveFrames = {} /\ Call(c)

Next ==
    \/ \E topic \in Topics, node \in Identities, wellformed \in BOOLEAN :
          Publish(topic, node, wellformed)
    \/ DropPublishers
    \/ \E c \in Frames : ExclusiveCall(c)
    \/ \E c \in Frames : Select(c)
    \/ \E c \in Frames : Finish(c)

Spec == Init /\ [][Next]_vars

\* A call that has started runs to its return: the caller's thread executes
\* the loop and the code after it without waiting on anything.
FairSpec == Spec /\ \A c \in Frames : WF_vars(Select(c)) /\ WF_vars(Finish(c))

\* Overlapping calls: the exclusivity of `&mut self` is lifted and a call may
\* start while another frame is between line 60 and line 102.
NextOverlap ==
    \/ \E topic \in Topics, node \in Identities, wellformed \in BOOLEAN :
          Publish(topic, node, wellformed)
    \/ DropPublishers
    \/ \E c \in Frames : Call(c)
    \/ \E c \in Frames : Select(c)
    \/ \E c \in Frames : Finish(c)

SpecOverlap == Init /\ [][NextOverlap]_vars

----------------------------------------------------------------------------
\* Vocabulary of the properties.
Returned == 1..Len(log)

Ended(i) == log[i].result.kind = "SubscriptionStreamEnded"

IsOk(i) == log[i].result.kind = "Ok"

IsMessageError(i) == log[i].result.kind = "MessageError"

Values == 1..MaxPublished

\* m carries a payload that is the encoding of some value.
WellFormed(m) == \E a \in Values : m.message = Encode(a)

ValueOf(m) == CHOOSE a \in Values : m.message = Encode(a)

AllWellFormed(raw) == \A k \in 1..Len(raw) : WellFormed(raw[k])

\* The batch a pass that buffered raw is to return: one pair per raw message,
\* in the same order.
BatchOf(raw) == [k \in 1..Len(raw) |-> <<MessageInfo(raw[k]), ValueOf(raw[k])>>]

NoCallActive == ActiveFrames = {}

----------------------------------------------------------------------------
\* C1 - Exhaustion terminality: the call whose drain pass observed the
\* stream's completion returns Ok with the items it collected (when they all
\* decode), and every call that returns after it returns
\* Err(SubscriptionStreamEnded).
C1_ExhaustionTerminal ==
    \A i \in Returned :
        log[i].complete =>
            /\ AllWellFormed(log[i].raw) => log[i].result = Ok(BatchOf(log[i].raw))
            /\ \A j \in Returned : j > i => Ended(j)

\* A pass that collected an item and observed completion returned it, and the
\* next call found the stream ended.
C1_Witness ==
    \E i \in Returned :
        /\ log[i].complete /\ IsOk(i) /\ Len(log[i].result.messages) >= 1
        /\ i + 1 \in Returned /\ Ended(i + 1)

\* C2 - Retry after decode failure: a call that returned Err(MessageError)
\* without observing completion has put the stream back into the slot, and
\* the call after it performs a drain pass instead of returning
\* Err(SubscriptionStreamEnded).
C2_RetryAfterDecodeFailure ==
    \A i \in Returned :
        (IsMessageError(i) /\ ~log[i].complete) =>
            /\ (i = Len(log) /\ NoCallActive) => subscription = "Some"
            /\ (i + 1 \in Returned) => (log[i + 1].drained /\ ~Ended(i + 1))

\* C3 - Slot invariant: between calls the slot is empty only if an earlier
\* drain pass observed the stream's completion.
C3_SlotInvariant ==
    (NoCallActive /\ subscription = "None") =>
        \E i \in Returned : log[i].complete

\* The (MessageInfo, value) pairs of the Ok batches of the first n returned
\* calls, concatenated in return order.
RECURSIVE Concat(_)
Concat(n) == IF n = 0 THEN <<>> ELSE Concat(n - 1) \o log[n].result.messages

Delivered == Concat(Len(log))

\* The pairs of the items published under topic, in publish order.
RECURSIVE PublishedUnder(_, _)
PublishedUnder(topic, n) ==
    IF n = 0 THEN <<>>
    ELSE IF published[n].topic = topic /\ WellFormed(published[n].message)
         THEN Append(PublishedUnder(topic, n - 1),
                     <<MessageInfo(published[n].message), ValueOf(published[n].message)>>)
         ELSE PublishedUnder(topic, n - 1)

AllPublishedDecode == \A n \in 1..Len(published) : WellFormed(published[n].message)

\* C4 - Topic isolation and completeness: when every published payload
\* decodes, a reader that has been called until it returned
\* Err(SubscriptionStreamEnded) has received, as the concatenation of its Ok
\* batches, exactly the items published under its topic, in publish order.
C4_TopicIsolation ==
    (AllPublishedDecode /\ \E i \in Returned : Ended(i)) =>
        Delivered = PublishedUnder(SubscribedTopic, Len(published))

\* Topic1, Topic2, Topic1 were published and the reader, called to the end,
\* received the first and the third item.
C4_Witness ==
    /\ AllPublishedDecode
    /\ \E i \in Returned : Ended(i)
    /\ [n \in 1..Len(published) |-> published[n].topic] = <<"Topic1", "Topic2", "Topic1">>
    /\ [k \in 1..Len(Delivered) |-> Delivered[k][2]] = <<1, 3>>

\* C5 - Emission order: the concatenation of the Ok batches lists items of
\* the stream in the order the stream emitted them (the publish order of its
\* topic), each at most once.
C5_EmissionOrder ==
    /\ \A k \in 1..Len(Delivered) :
          LET a == Delivered[k][2] IN
          /\ a \in 1..Len(published)
          /\ published[a].topic = SubscribedTopic
          /\ published[a].message.message = Encode(a)
          /\ Delivered[k][1] = MessageInfo(published[a].message)
    /\ \A k, l \in 1..Len(Delivered) : k < l => Delivered[k][2] < Delivered[l][2]

\* Two calls each returned a non-empty batch, the second of several items.
C5_Witness ==
    \E i, j \in Returned :
        /\ i < j /\ IsOk(i) /\ IsOk(j)
        /\ Len(log[i].result.messages) >= 1
        /\ Len(log[j].result.messages) >= 2

\* C6 - Decode fail-fast, all-or-nothing: a pass that buffered an item that
\* does not decode returns Err(MessageError) and no item; a call returns Ok
\* only if every buffered item decoded.
C6_DecodeFailFast ==
    \A i \in Returned :
        log[i].drained =>
            /\ ~AllWellFormed(log[i].raw) => log[i].result = Err("MessageError")
            /\ IsOk(i) => AllWellFormed(log[i].raw)
            /\ IsMessageError(i) => log[i].result.messages = <<>>

\* A pass buffered a well-formed item followed by a malformed one and
\* returned Err(MessageError).
C6_Witness ==
    \E i \in Returned :
        /\ Len(log[i].raw) = 2
        /\ WellFormed(log[i].raw[1]) /\ ~WellFormed(log[i].raw[2])
        /\ IsMessageError(i)

\* A pass whose first poll found the stream live with nothing ready.
EmptyDrain(i) == log[i].drained /\ log[i].raw = <<>> /\ log[i].last_poll = "Pending"

\* C7 - Idempotent empty drain: a call that finds the stream live and with
\* no item ready returns Ok(empty) and leaves the stream in the slot, so the
\* call after it drains again.
C7_IdempotentEmptyDrain ==
    \A i \in Returned :
        EmptyDrain(i) =>
            /\ log[i].result = Ok(<<>>)
            /\ ~log[i].complete
            /\ (i = Len(log) /\ NoCallActive) => subscription = "Some"
            /\ (i + 1 \in Returned) => log[i + 1].drained

\* Three empty drains in a row, the reader still occupied.
C7_Witness ==
    /\ Len(log) >= 3
    /\ \A i \in 1..3 : EmptyDrain(i) /\ log[i].result = Ok(<<>>)
    /\ NoCallActive /\ subscription = "Some"

\* C8 - SubscriptionStreamEnded is terminal: once a call has returned
\* Err(SubscriptionStreamEnded) every later call returns it too, and the
\* slot is not occupied again.
C8_EndedTerminal ==
    /\ \A i, j \in Returned : (i < j /\ Ended(i)) => Ended(j)
    /\ (\E i \in Returned : Ended(i)) =>
          (subscription = "None" /\ \A c \in Frames : s[c] = "None")

\* Two calls in a row returned Err(SubscriptionStreamEnded).
C8_Witness ==
    \E i \in Returned : i + 1 \in Returned /\ Ended(i) /\ Ended(i + 1)

HandlesHeld == Cardinality({c \in Frames : s[c] = "Some"})
                 + (IF subscription = "Some" THEN 1 ELSE 0)

\* C10 - Exclusive ownership under overlapping calls: there is at most one
\* handle to the stream, at most one frame is in a drain pass, and a call
\* that starts while another frame is active returns
\* Err(SubscriptionStreamEnded) without touching the stream.
C10_ExclusiveOwnership ==
    /\ [](HandlesHeld <= 1)
    /\ [](Cardinality({c \in Frames : s[c] = "Some" /\ pc[c] # "idle"}) <= 1)
    /\ [][\A c \in Frames :
            ((\E d \in Frames \ {c} : pc[d] # "idle") /\ Call(c)) =>
                /\ log' = Append(log, [result |-> Err("SubscriptionStreamEnded"),
                                       raw |-> <<>>, complete |-> FALSE,
                                       last_poll |-> "NotPolled", drained |-> FALSE])
                /\ UNCHANGED <<queue, terminated, s, pc, last_poll>>]_vars

\* A call returned Err(SubscriptionStreamEnded) while the first call, which
\* holds the stream, is still in its drain pass.
C10_Witness ==
    /\ Len(log) = 1 /\ Ended(1)
    /\ \E c \in Frames : pc[c] = "drain" /\ s[c] = "Some"

LastReturned == log[Len(log)]

\* C11 - One drain pass collects everything currently ready: when the items
\* ready at the start of a call on an occupied reader all decode and none
\* arrives during the call, the pass buffers exactly those items, leaves none
\* in the stream, and the call returns the batch of all of them.
C11_CollectsAllReady ==
    /\ \A c \in Frames :
          (pc[c] = "decode" /\ ready.quiet) =>
              (stream_messages[c] = ready.items /\ queue = <<>>)
    /\ (NoCallActive /\ Len(log) >= 1 /\ LastReturned.drained
          /\ ready.quiet /\ AllWellFormed(ready.items)) =>
              /\ LastReturned.raw = ready.items
              /\ LastReturned.result = Ok(BatchOf(ready.items))

\* Two items were ready, none arrived during the call, and the call returned
\* both in one batch.
C11_Witness ==
    /\ NoCallActive /\ Len(log) >= 1 /\ LastReturned.drained
    /\ ready.quiet /\ Len(ready.items) = 2
    /\ IsOk(Len(log)) /\ Len(LastReturned.result.messages) = 2

\* C12 - Reserved error kinds are never produced: every result is Ok,
\* Err(SubscriptionStreamEnded) or Err(MessageError).
C12_NoReservedErrors ==
    \A i \in Returned :
        /\ log[i].result.kind \in {"Ok", "SubscriptionStreamEnded", "MessageError"}
        /\ log[i].result.kind \notin {"StreamError", "SubscriptionReaderNotInitialized"}

\* One reader has returned each of the three kinds of result.
C12_Witness ==
    /\ \E i \in Returned : IsOk(i)
    /\ \E i \in Returned : IsMessageError(i)
    /\ \E i \in Returned : Ended(i)

\* C13 - Provenance pairing: an Ok batch has one pair per buffered raw
\* message, and the k-th pair carries the peer_source and origin_source of
\* the k-th raw message with the value that message's payload encodes.
C13_ProvenancePairing ==
    \A i \in Returned :
        IsOk(i) =>
            /\ Len(log[i].result.messages) = Len(log[i].raw)
            /\ \A k \in 1..Len(log[i].raw) :
                  LET pair == log[i].result.messages[k]
                      m == log[i].raw[k]
                  IN /\ pair[1].peer_source = m.peer_source
                     /\ pair[1].origin_source = m.origin_source
                     /\ m.message = Encode(pair[2])

\* An Ok batch of two messages that came from different nodes.
C13_Witness ==
    \E i \in Returned :
        /\ IsOk(i) /\ Len(log[i].result.messages) = 2
        /\ log[i].raw[1].peer_source # log[i].raw[2].peer_source
        /\ log[i].raw[1].origin_source # log[i].raw[2].origin_source

\* C14 - The first call on a reader built by new performs a drain pass and
\* does not return Err(SubscriptionStreamEnded), also when the stream is
\* already complete and empty; the call that observes completion returns Ok
\* or Err(MessageError).
C14_FirstCallDrains ==
    /\ Len(log) >= 1 => (log[1].drained /\ ~Ended(1))
    /\ \A i \in Returned :
          log[i].complete => (log[i].drained /\ (IsOk(i) \/ IsMessageError(i)))

\* The stream was complete and empty from the start: the first call returned
\* Ok(empty) and left the reader without a stream.
C14_Witness ==
    /\ published = <<>>
    /\ Len(log) = 1 /\ log[1].result = Ok(<<>>) /\ log[1].complete
    /\ NoCallActive /\ subscription = "None"

\* The places where the item carrying value a has been buffered: in the
\* passes that returned, and in the passes in progress.
BufferedReturned(a) ==
    {<<i, k>> \in Returned \X (1..MaxPublished) :
        k <= Len(log[i].raw) /\ log[i].raw[k].message = Encode(a)}

BufferedActive(a) ==
    {<<c, k>> \in Frames \X (1..(MaxPublished + 1)) :
        k <= Len(stream_messages[c]) /\ stream_messages[c][k].message = Encode(a)}

\* C15 - No item is drained twice, and the items buffered by a pass that
\* ended in Err(MessageError), the well-formed ones included, are returned
\* by no call.
C15_NoRedelivery ==
    /\ \A a \in Values :
          Cardinality(BufferedReturned(a)) + Cardinality(BufferedActive(a)) <= 1
    /\ \A i \in Returned :
          IsMessageError(i) =>
              \A k \in 1..Len(log[i].raw), l \in 1..Len(Delivered) :
                  log[i].raw[k].message # Encode(Delivered[l][2])

\* A pass buffered a well-formed item, ended in Err(MessageError), and a
\* later call has returned.
C15_Witness ==
    \E i \in Returned :
        /\ IsMessageError(i)
        /\ \E k \in 1..Len(log[i].raw) : WellFormed(log[i].raw[k])
        /\ i + 1 \in Returned

====
